---- MODULE Spec2Model ----
(***************************************************************************)
(* Model of the binary codecs of indexer/routing.hpp (turn restrictions)   *)
(* and traffic/traffic_info.cpp (traffic keys, traffic values, colorings). *)
(*                                                                         *)
(* Unsigned 32-bit quantities are 32-element bit sequences, least          *)
(* significant bit first, so that the wrap-around of uint32_t arithmetic   *)
(* is the real one.  Values handed to the Elias coders (uint64_t) are      *)
(* normalised bit sequences: least significant bit first, no leading zero  *)
(* at the top, <<>> for 0.                                                 *)
(***************************************************************************)
EXTENDS Integers, Sequences, FiniteSets, TLC

\* ------------------------------------------------------------------ bounds
MaxRestrictions == 2
MaxLinks == 2
MaxGroups == 2
MaxSegs == 2
MaxValues == 3
MaxAllKeys == 3
MaxReceives == 3

\* ------------------------------------------------------- machine integers
WordBits == 32

Pow2(n) == 2 ^ n

\* A sequence given as a function, with its elements computed once.
Tup(f) == f \o <<>>

\* The uint32_t whose high and low 16-bit halves are hi and lo.
U32(hi, lo) ==
  Tup([i \in 1..WordBits |->
         IF i <= 16 THEN (lo \div Pow2(i - 1)) % 2
         ELSE (hi \div Pow2(i - 17)) % 2])

Zero32 == U32(0, 0)
One32 == U32(0, 1)

\* Bits i..32 of a + b + cin, cin being the carry into bit i.
RECURSIVE AddFrom(_, _, _, _)
AddFrom(a, b, cin, i) ==
  IF i > WordBits THEN <<>>
  ELSE <<(a[i] + b[i] + cin) % 2>>
         \o AddFrom(a, b, (a[i] + b[i] + cin) \div 2, i + 1)

AddCarry32(a, b, cin) == AddFrom(a, b, cin, 1)

\* uint32_t a + b, modulo 2^32.
Add32(a, b) == AddCarry32(a, b, 0)

Not32(a) == Tup([i \in 1..WordBits |-> 1 - a[i]])

\* uint32_t a - b, modulo 2^32 (a + ~b + 1).
Sub32(a, b) == AddCarry32(a, Not32(b), 1)

\* a < b as unsigned 32-bit numbers.
Less32(a, b) ==
  \E i \in 1..WordBits :
    /\ a[i] < b[i]
    /\ \A j \in (i + 1)..WordBits : a[j] = b[j]

\* The normalised value of a bit sequence: the zeros at the top dropped.
RECURSIVE Norm(_)
Norm(b) ==
  IF b = <<>> THEN <<>>
  ELSE IF b[Len(b)] = 0 THEN Norm(SubSeq(b, 1, Len(b) - 1))
  ELSE b

\* static_cast<uint64_t>(uint32_t)
Widen(w) == Norm(w)

\* static_cast<uint32_t>(uint64_t): the low 32 bits.
Trunc32(v) == Tup([i \in 1..WordBits |-> IF i <= Len(v) THEN v[i] ELSE 0])

\* A small natural number as a normalised bit sequence, and back.
RECURSIVE NatBits(_)
NatBits(n) == IF n = 0 THEN <<>> ELSE <<n % 2>> \o NatBits(n \div 2)

RECURSIVE BitsNat(_)
BitsNat(b) ==
  IF b = <<>> THEN 0 ELSE b[1] + 2 * BitsNat(SubSeq(b, 2, Len(b)))

Reverse(s) == Tup([i \in 1..Len(s) |-> s[Len(s) + 1 - i]])

Zeros(n) == Tup([i \in 1..n |-> 0])

\* v - 1 on a normalised value v >= 1.
RECURSIVE DecBits(_)
DecBits(v) ==
  IF v[1] = 1 THEN Norm(<<0>> \o SubSeq(v, 2, Len(v)))
  ELSE <<1>> \o DecBits(SubSeq(v, 2, Len(v)))

\* ---------------------------------------------------------------- zig-zag
\* bits::ZigZagEncode(int32_t x) = (x << 1) ^ (x >> 31), as uint32_t.
ZigZagEncode(x) ==
  Tup([i \in 1..WordBits |->
         ((IF i = 1 THEN 0 ELSE x[i - 1]) + x[WordBits]) % 2])

\* bits::ZigZagDecode(uint32_t u) = (u >> 1) ^ -(u & 1), as int32_t.
ZigZagDecode(u) ==
  Tup([i \in 1..WordBits |->
         ((IF i = WordBits THEN 0 ELSE u[i + 1]) + u[1]) % 2])

\* static_cast<int32_t>(a) - static_cast<int32_t>(b) leaves the int32_t range.
SignedSubOverflows(a, b) ==
  /\ a[WordBits] # b[WordBits]
  /\ Sub32(a, b)[WordBits] # a[WordBits]

\* ---------------------------------------------------------------- bit I/O
\* BitWriter: the bits written, in order, packed into bytes least significant
\* bit first; the destructor pads the last byte with zero bits.
RECURSIVE PackBits(_)
PackBits(bits) ==
  IF bits = <<>> THEN <<>>
  ELSE IF Len(bits) < 8 THEN <<BitsNat(bits)>>
  ELSE <<BitsNat(SubSeq(bits, 1, 8))>> \o PackBits(SubSeq(bits, 9, Len(bits)))

\* BitReader: the bits of a byte sequence in the order Read(1) returns them.
RECURSIVE UnpackBytes(_)
UnpackBytes(bytes) ==
  IF bytes = <<>> THEN <<>>
  ELSE Tup([i \in 1..8 |-> (bytes[1] \div Pow2(i - 1)) % 2])
         \o UnpackBytes(SubSeq(bytes, 2, Len(bytes)))

\* Bytes a BitReader has taken from its source after reading n bits.
BytesRead(n) == (n + 7) \div 8

\* ----------------------------------------------------------- Elias coders
\* GammaCoder::Encode: false (nothing written) for 0, else L - 1 zero bits and
\* the L bits of the value, most significant first.
GammaEncode(v) ==
  IF v = <<>> THEN [ok |-> FALSE, bits |-> <<>>]
  ELSE [ok |-> TRUE, bits |-> Zeros(Len(v) - 1) \o Reverse(v)]

\* DeltaCoder::Encode: false for 0, else gamma(L) and the low L - 1 bits of the
\* value, most significant first.
DeltaEncode(v) ==
  IF v = <<>> THEN [ok |-> FALSE, bits |-> <<>>]
  ELSE [ok |-> TRUE,
        bits |-> GammaEncode(NatBits(Len(v))).bits
                   \o Reverse(SubSeq(v, 1, Len(v) - 1))]

\* Number of zero bits of `bits` from position pos (1-based) on.
RECURSIVE ZeroRun(_, _)
ZeroRun(bits, pos) ==
  IF pos > Len(bits) \/ bits[pos] = 1 THEN 0 ELSE 1 + ZeroRun(bits, pos + 1)

\* GammaCoder::Decode at position pos: z zero bits, then z + 1 bits, most
\* significant first.  eof when the source ends inside the codeword.
GammaDecode(bits, pos) ==
  LET After(z) ==
        IF pos + 2 * z > Len(bits)
          THEN [eof |-> TRUE, val |-> <<>>, pos |-> pos]
          ELSE [eof |-> FALSE,
                val |-> Reverse(SubSeq(bits, pos + z, pos + 2 * z)),
                pos |-> pos + 2 * z + 1]
  IN  After(ZeroRun(bits, pos))

\* A length prefix of more than this many bits exceeds every source modelled:
\* the read of the codeword's tail runs off the end of the source.
MaxLengthBits == 16

\* DeltaCoder::Decode at position pos: L by gamma, then L - 1 bits under an
\* implicit leading 1.
DeltaDecode(bits, pos) ==
  LET Rest(g) ==
        IF g.eof THEN g
        ELSE IF Len(g.val) > MaxLengthBits
                  \/ g.pos + BitsNat(g.val) - 2 > Len(bits)
          THEN [eof |-> TRUE, val |-> <<>>, pos |-> pos]
          ELSE [eof |-> FALSE,
                val |-> Reverse(SubSeq(bits, g.pos, g.pos + BitsNat(g.val) - 2))
                          \o <<1>>,
                pos |-> g.pos + BitsNat(g.val) - 1]
  IN  Rest(GammaDecode(bits, pos))

\* ============================================================== state
VARIABLES
  build,          \* the build: [debug, trapv]
  pc,             \* position of the modelled caller
  \* indexer/routing.hpp
  restrictions,   \* the RestrictionVec handed to Serialize
  firstOnlyIt,    \* index (1-based) of the first element of the second range
  sink,           \* bytes that reached the sink
  serStatus,      \* how Serialize ended
  encoded,        \* the values handed to the Elias encoders, in order
  header,         \* RoutingHeader counts
  src,            \* bytes of the source handed to Deserialize
  decoded,        \* the RestrictionVec Deserialize filled
  desStatus,      \* how Deserialize ended
  \* traffic/traffic_info.cpp, the codecs
  which,          \* the component exercised: "restrictions", "keys", "values",
                  \* "combine" or "info"
  trafficKeys,    \* the vector<RoadSegmentId> handed to SerializeTrafficKeys
  trafficValues,  \* the vector<SpeedGroup> handed to SerializeTrafficValues
  data,           \* the blob: bytes (keys) or a deflated buffer (values)
  tampered,       \* what was done to the blob after it was written
  result,         \* what the deserializer left in its result vector
  wrote,          \* whether the deserializer assigned its result vector
  status,         \* how the last codec call ended
  \* traffic/traffic_info.cpp, CombineColorings
  allKeys,        \* the key vector handed to CombineColorings
  knownColors,    \* the known coloring handed to CombineColorings
  fullColoring,   \* the coloring CombineColorings filled
  \* traffic/traffic_info.cpp, one TrafficInfo
  m_keys,
  m_coloring,
  m_availability,
  m_currentDataVersion,
  info,           \* whether m_mwmId.GetInfo() is non-null
  url,            \* what MakeRemoteURL gives: "" or "remote"
  mwmVersion,     \* m_mwmId.GetInfo()->GetVersion()
  ret,            \* what the last ReceiveTrafficData returned
  received,       \* the values the last ReceiveTrafficValues decoded
  calls           \* ReceiveTrafficData calls so far

vars == <<build, pc, restrictions, firstOnlyIt, sink, serStatus, encoded,
          header, src, decoded, desStatus, which, trafficKeys, trafficValues,
          data, tampered, result, wrote, status, allKeys, knownColors,
          fullColoring, m_keys, m_coloring, m_availability,
          m_currentDataVersion, info, url, mwmVersion, ret, received, calls>>

\* ASSERT is compiled out of release builds, CHECK never is; both abort the
\* process when they fail.
Builds == [debug : BOOLEAN, trapv : BOOLEAN]

\* ================================================= indexer/routing.hpp
kInvalidFeatureId == U32(65535, 65535)

Restriction(type, links) == [m_type |-> type, m_featureIds |-> links]

TypeRank(type) == IF type = "No" THEN 0 ELSE 1

\* vector<uint32_t> a < b, lexicographically.
LexLess(a, b) ==
  \E i \in 1..(Len(a) + 1) :
    /\ \A j \in 1..(i - 1) : j <= Len(b) /\ a[j] = b[j]
    /\ i <= Len(b)
    /\ (i = Len(a) + 1 \/ Less32(a[i], b[i]))

\* Restriction::operator<
RestrictionLess(a, b) ==
  IF a.m_type # b.m_type THEN TypeRank(a.m_type) < TypeRank(b.m_type)
  ELSE LexLess(a.m_featureIds, b.m_featureIds)

\* Restriction::IsValid
IsValid(r) ==
  /\ Len(r.m_featureIds) >= 2
  /\ \A i \in 1..Len(r.m_featureIds) : r.m_featureIds[i] # kInvalidFeatureId

\* std::is_sorted over a range of restrictions.
IsSorted(rs) ==
  \A i \in 1..(Len(rs) - 1) : ~RestrictionLess(rs[i + 1], rs[i])

\* The bytes a BitWriter has handed to its sink when the process stops before
\* the writer is destroyed: the complete bytes only.
SpilledBytes(bits) == PackBits(SubSeq(bits, 1, 8 * (Len(bits) \div 8)))

\* The inner loop of SerializeSingleType over m_featureIds[i..], with
\* prevLinkFeatureId = prev.  Signed overflow in the subtraction is undefined:
\* the build either wraps or traps.
RECURSIVE EncodeLinks(_, _, _, _)
EncodeLinks(fids, i, prev, trapv) ==
  IF i > Len(fids) THEN [status |-> "ok", bits |-> <<>>, args |-> <<>>]
  ELSE IF trapv /\ SignedSubOverflows(fids[i], prev)
    THEN [status |-> "trapped", bits |-> <<>>, args |-> <<>>]
  ELSE
    LET delta == ZigZagEncode(Sub32(fids[i], prev))
        arg == Widen(Add32(delta, One32))
        rest == EncodeLinks(fids, i + 1, fids[i], trapv)
    IN  [status |-> rest.status,
         bits |-> DeltaEncode(arg).bits \o rest.bits,
         args |-> <<arg>> \o rest.args]

\* The outer loop of SerializeSingleType from element k on.
RECURSIVE SerializeFrom(_, _, _, _, _)
SerializeFrom(rs, k, type, prevFirst, trapv) ==
  IF k > Len(rs) THEN [status |-> "ok", bytes |-> <<>>, args |-> <<>>]
  ELSE
    LET r == rs[k]
    IN  IF type # r.m_type \/ ~IsValid(r) \/ ~(1 < Len(r.m_featureIds))
          THEN [status |-> "check_failed", bytes |-> <<>>, args |-> <<>>]
        ELSE
          LET count == NatBits(Len(r.m_featureIds) - 1)
              links == EncodeLinks(r.m_featureIds, 1, prevFirst, trapv)
              bits == DeltaEncode(count).bits \o links.bits
          IN  IF links.status # "ok"
                THEN [status |-> links.status,
                      bytes |-> SpilledBytes(bits),
                      args |-> <<count>> \o links.args]
              ELSE
                LET rest == SerializeFrom(rs, k + 1, type,
                                          r.m_featureIds[1], trapv)
                IN  [status |-> rest.status,
                     bytes |-> PackBits(bits) \o rest.bytes,
                     args |-> <<count>> \o links.args \o rest.args]

\* RestrictionSerializer::SerializeSingleType
SerializeSingleType(rs, trapv) ==
  IF rs = <<>> THEN [status |-> "ok", bytes |-> <<>>, args |-> <<>>]
  ELSE IF ~IsSorted(rs)
    THEN [status |-> "check_failed", bytes |-> <<>>, args |-> <<>>]
  ELSE SerializeFrom(rs, 1, rs[1].m_type, Zero32, trapv)

\* RestrictionSerializer::Serialize over [begin, firstOnlyIt) and
\* [firstOnlyIt, end).
SerializeRestrictions(rs, split, trapv) ==
  LET first == SerializeSingleType(SubSeq(rs, 1, split - 1), trapv)
      second == SerializeSingleType(SubSeq(rs, split, Len(rs)), trapv)
  IN  IF first.status # "ok" THEN first
      ELSE [status |-> second.status,
            bytes |-> first.bytes \o second.bytes,
            args |-> first.args \o second.args]

\* The inner loop of DeserializeSingleType: n feature ids from bit position
\* pos on, with prevLinkFeatureId = prev.
RECURSIVE DecodeLinks(_, _, _, _)
DecodeLinks(bits, pos, n, prev) ==
  LET Join(fid, rest) ==
        [kind |-> rest.kind, fids |-> <<fid>> \o rest.fids, pos |-> rest.pos]
      Store(d, fid) == Join(fid, DecodeLinks(bits, d.pos, n - 1, fid))
      Link(d, biasedDelta) ==
        IF d.eof THEN [kind |-> "eof", fids |-> <<>>, pos |-> pos]
        ELSE IF biasedDelta = Zero32
          THEN [kind |-> "zero", fids |-> <<>>, pos |-> d.pos]
        ELSE Store(d, Add32(ZigZagDecode(Sub32(biasedDelta, One32)), prev))
      Read(d) == Link(d, Trunc32(d.val))
  IN  IF n = 0 THEN [kind |-> "ok", fids |-> <<>>, pos |-> pos]
      ELSE Read(DeltaDecode(bits, pos))

\* Link counts beyond this many bits cannot be read from a source of the sizes
\* modelled: resize() or the reader throws.
MaxCountBits == 16

\* RestrictionSerializer::DeserializeSingleType, `count` restrictions from
\* `bytes`: ret is "true", "false" or "threw" (the source ran out), out the
\* restrictions pushed back, rest the bytes left in the source.
RECURSIVE DeserializeSingleType(_, _, _, _)
DeserializeSingleType(type, count, bytes, prevFirst) ==
  LET Left(pos) == SubSeq(bytes, BytesRead(pos - 1) + 1, Len(bytes))
      Push(fids, rest) ==
        [ret |-> rest.ret,
         out |-> <<Restriction(type, fids)>> \o rest.out,
         rest |-> rest.rest]
      Links(links) ==
        IF links.kind = "eof"
          THEN [ret |-> "threw", out |-> <<>>, rest |-> <<>>]
        ELSE IF links.kind = "zero"
          THEN [ret |-> "false", out |-> <<>>, rest |-> Left(links.pos)]
        ELSE Push(links.fids,
                  DeserializeSingleType(type, count - 1, Left(links.pos),
                                        links.fids[1]))
      Count(bits, d, biasedLinkNumber) ==
        IF d.eof THEN [ret |-> "threw", out |-> <<>>, rest |-> <<>>]
        ELSE IF biasedLinkNumber = Zero32
          THEN [ret |-> "false", out |-> <<>>, rest |-> Left(d.pos)]
        ELSE IF Len(Widen(biasedLinkNumber)) > MaxCountBits
          THEN [ret |-> "threw", out |-> <<>>, rest |-> <<>>]
        ELSE Links(DecodeLinks(bits, d.pos,
                               BitsNat(Widen(biasedLinkNumber)) + 1, prevFirst))
      Read(bits, d) == Count(bits, d, Trunc32(d.val))
      Open(bits) == Read(bits, DeltaDecode(bits, 1))
  IN  IF count = 0 THEN [ret |-> "true", out |-> <<>>, rest |-> bytes]
      ELSE Open(UnpackBytes(bytes))

\* RestrictionSerializer::Deserialize: the No group, then the Only group from
\* wherever the No group left the source, whatever the No group returned.
DeserializeRestrictions(hdr, bytes) ==
  LET Both(no, only) ==
        [outcome |-> IF only.ret = "threw" THEN "threw" ELSE "returned",
         noRet |-> no.ret, onlyRet |-> only.ret,
         noOut |-> no.out, onlyOut |-> only.out]
      Only(no) ==
        IF no.ret = "threw"
          THEN [outcome |-> "threw", noRet |-> no.ret, onlyRet |-> "none",
                noOut |-> no.out, onlyOut |-> <<>>]
        ELSE Both(no, DeserializeSingleType("Only", hdr.m_onlyRestrictionCount,
                                            no.rest, Zero32))
  IN  Only(DeserializeSingleType("No", hdr.m_noRestrictionCount, bytes, Zero32))

\* ============================================ traffic/traffic_info.cpp
kLatestKeysVersion == 0
kLatestValuesVersion == 0
kReverseDirection == 1

RoadSegmentId(fid, idx, dir) == [m_fid |-> fid, m_idx |-> idx, m_dir |-> dir]

\* WriteVarUint: base 128, low group first, bit 7 set on all but the last byte.
RECURSIVE WriteVarUint(_)
WriteVarUint(n) ==
  IF n < 128 THEN <<n>> ELSE <<128 + (n % 128)>> \o WriteVarUint(n \div 128)

\* ReadVarUint from byte position pos (1-based); eof when the source ends first.
RECURSIVE ReadVarUint(_, _)
ReadVarUint(bytes, pos) ==
  LET More(rest) ==
        [eof |-> rest.eof, val |-> bytes[pos] - 128 + 128 * rest.val,
         pos |-> rest.pos]
  IN  IF pos > Len(bytes) THEN [eof |-> TRUE, val |-> 0, pos |-> pos]
      ELSE IF bytes[pos] < 128
        THEN [eof |-> FALSE, val |-> bytes[pos], pos |-> pos + 1]
      ELSE More(ReadVarUint(bytes, pos + 1))

\* The inner while loop of SerializeTrafficKeys: the first index from j on whose
\* fid differs from keys[i]'s.
RECURSIVE GroupEnd(_, _, _)
GroupEnd(keys, i, j) ==
  IF j <= Len(keys) /\ keys[i].m_fid = keys[j].m_fid
    THEN GroupEnd(keys, i, j + 1)
    ELSE j

\* The grouping loop of SerializeTrafficKeys from index i on: the three
\* parallel vectors, or the failure of CHECK_EQUAL(numSegsForThisFid % numDirs, 0).
RECURSIVE GroupKeys(_, _)
GroupKeys(keys, i) ==
  LET Cons(fid, n, ow, rest) ==
        [ok |-> rest.ok, fids |-> <<fid>> \o rest.fids,
         numSegs |-> <<n>> \o rest.numSegs, oneWay |-> <<ow>> \o rest.oneWay]
      Dirs(j, ow, numDirs) ==
        IF (j - i) % numDirs # 0
          THEN [ok |-> FALSE, fids |-> <<>>, numSegs |-> <<>>, oneWay |-> <<>>]
          ELSE Cons(keys[i].m_fid, (j - i) \div numDirs, ow, GroupKeys(keys, j))
      Flag(j, ow) == Dirs(j, ow, IF ow THEN 1 ELSE 2)
      Group(j) ==
        Flag(j, \A k \in i..(j - 1) : keys[k].m_dir # kReverseDirection)
  IN  IF i > Len(keys)
        THEN [ok |-> TRUE, fids |-> <<>>, numSegs |-> <<>>, oneWay |-> <<>>]
        ELSE Group(GroupEnd(keys, i, i))

\* The first bit-writer loop of SerializeTrafficKeys from fids[i] on:
\* Encode(fidDiff + 1), the sum taken in uint32_t, under ASSERT(ok).
RECURSIVE EncodeFids(_, _, _, _)
EncodeFids(fids, i, prevFid, debug) ==
  LET Cons(arg, e, rest) ==
        [status |-> rest.status, bits |-> e.bits \o rest.bits,
         args |-> <<arg>> \o rest.args]
      Emit(arg, e) ==
        IF debug /\ ~e.ok
          THEN [status |-> "assert_failed", bits |-> <<>>, args |-> <<arg>>]
          ELSE Cons(arg, e, EncodeFids(fids, i + 1, fids[i], debug))
      Put(arg) == Emit(arg, GammaEncode(arg))
  IN  IF i > Len(fids) THEN [status |-> "ok", bits |-> <<>>, args |-> <<>>]
      ELSE Put(Widen(Add32(Sub32(fids[i], prevFid), One32)))

\* The second bit-writer loop: Encode(s + 1), the sum taken in size_t.
RECURSIVE EncodeNumSegs(_, _)
EncodeNumSegs(numSegs, i) ==
  IF i > Len(numSegs) THEN [bits |-> <<>>, args |-> <<>>]
  ELSE [bits |-> GammaEncode(NatBits(numSegs[i] + 1)).bits
                   \o EncodeNumSegs(numSegs, i + 1).bits,
        args |-> <<NatBits(numSegs[i] + 1)>>
                   \o EncodeNumSegs(numSegs, i + 1).args]

\* The third bit-writer loop: one bit per group.
EncodeOneWay(oneWay) == Tup([i \in 1..Len(oneWay) |-> IF oneWay[i] THEN 1 ELSE 0])

\* TrafficInfo::SerializeTrafficKeys: status "ok", "check_failed" (nothing was
\* written) or "assert_failed" (the process stopped inside the bit writer).
SerializeTrafficKeys(keys, debug) ==
  LET Prefix(n) == <<kLatestKeysVersion>> \o WriteVarUint(n)
      Write(g, f, s) ==
        IF f.status # "ok"
          THEN [status |-> f.status,
                bytes |-> Prefix(Len(g.fids)) \o SpilledBytes(f.bits),
                args |-> f.args]
          ELSE [status |-> "ok",
                bytes |-> Prefix(Len(g.fids))
                            \o PackBits(f.bits \o s.bits \o EncodeOneWay(g.oneWay)),
                args |-> f.args \o s.args]
      Grouped(g) ==
        IF ~g.ok THEN [status |-> "check_failed", bytes |-> <<>>, args |-> <<>>]
        ELSE Write(g, EncodeFids(g.fids, 1, Zero32, debug),
                   EncodeNumSegs(g.numSegs, 1))
  IN  Grouped(GroupKeys(keys, 1))

\* The first bit-reader loop of DeserializeTrafficKeys: n fids from bit
\* position pos on, prevFid += Decode() - 1 in uint32_t.
RECURSIVE DecodeFids(_, _, _, _)
DecodeFids(bits, pos, n, prevFid) ==
  LET Cons(fid, rest) ==
        [eof |-> rest.eof, fids |-> <<fid>> \o rest.fids, pos |-> rest.pos]
      Step(d, fid) == Cons(fid, DecodeFids(bits, d.pos, n - 1, fid))
      Read(d) ==
        IF d.eof THEN [eof |-> TRUE, fids |-> <<>>, pos |-> pos]
        ELSE Step(d, Add32(prevFid, Trunc32(DecBits(d.val))))
  IN  IF n = 0 THEN [eof |-> FALSE, fids |-> <<>>, pos |-> pos]
      ELSE Read(GammaDecode(bits, pos))

\* The second bit-reader loop: numSegs[i] = Decode() - 1.  big when a count
\* has more than MaxCountBits bits: the expansion then exhausts memory.
RECURSIVE DecodeNumSegs(_, _, _)
DecodeNumSegs(bits, pos, n) ==
  LET Cons(s, rest) ==
        [eof |-> rest.eof, big |-> rest.big, numSegs |-> <<s>> \o rest.numSegs,
         pos |-> rest.pos]
      Read(d) ==
        IF d.eof
          THEN [eof |-> TRUE, big |-> FALSE, numSegs |-> <<>>, pos |-> pos]
        ELSE IF Len(d.val) > MaxCountBits
          THEN [eof |-> FALSE, big |-> TRUE, numSegs |-> <<>>, pos |-> pos]
        ELSE Cons(BitsNat(DecBits(d.val)), DecodeNumSegs(bits, d.pos, n - 1))
  IN  IF n = 0
        THEN [eof |-> FALSE, big |-> FALSE, numSegs |-> <<>>, pos |-> pos]
        ELSE Read(GammaDecode(bits, pos))

\* The keys of one group: idx outer, dir inner; idx is a uint16_t.
GroupExpansion(fid, numSegs, oneWay) ==
  LET numDirs == IF oneWay THEN 1 ELSE 2
  IN  Tup([k \in 1..(numSegs * numDirs) |->
             RoadSegmentId(fid, ((k - 1) \div numDirs) % 65536,
                           (k - 1) % numDirs)])

\* The last loop of DeserializeTrafficKeys from group i on.
RECURSIVE ExpandKeys(_, _, _, _)
ExpandKeys(fids, numSegs, oneWay, i) ==
  IF i > Len(fids) THEN <<>>
  ELSE GroupExpansion(fids[i], numSegs[i], oneWay[i])
         \o ExpandKeys(fids, numSegs, oneWay, i + 1)

\* DeserializeTrafficKeys after the version byte: the count, the three bit
\* streams, ASSERT_EQUAL(src.Size(), 0) and the expansion into `result`.
ReadTrafficKeys(bytes, debug) ==
  LET Threw == [status |-> "threw", result |-> <<>>, wrote |-> FALSE]
      Done(bits, f, s, n) ==
        IF s.pos + n - 1 > Len(bits) THEN Threw
        ELSE IF debug /\ BytesRead(s.pos + n - 1) # Len(bits) \div 8
          THEN [status |-> "assert_failed", result |-> <<>>, wrote |-> FALSE]
        ELSE [status |-> "ok",
              result |-> ExpandKeys(f.fids, s.numSegs,
                                    [i \in 1..n |-> bits[s.pos + i - 1] > 0], 1),
              wrote |-> TRUE]
      Segs(bits, f, s, n) ==
        IF s.eof \/ s.big THEN Threw ELSE Done(bits, f, s, n)
      Fids(bits, f, n) ==
        IF f.eof THEN Threw ELSE Segs(bits, f, DecodeNumSegs(bits, f.pos, n), n)
      Payload(bits, n) == Fids(bits, DecodeFids(bits, 1, n, Zero32), n)
      Count(v) ==
        IF v.eof THEN Threw
        ELSE Payload(UnpackBytes(SubSeq(bytes, v.pos, Len(bytes))), v.val)
  IN  Count(ReadVarUint(bytes, 2))

\* DeserializeTrafficKeys without its CHECK_EQUAL on the version byte.
DeserializeTrafficKeysAnyVersion(bytes, debug) ==
  IF bytes = <<>> THEN [status |-> "threw", result |-> <<>>, wrote |-> FALSE]
  ELSE ReadTrafficKeys(bytes, debug)

\* TrafficInfo::DeserializeTrafficKeys: status "ok", "threw" (an exception of
\* the reader or of an allocation reaches the caller), "check_failed" or
\* "assert_failed" (the process is aborted); wrote tells whether `result` was
\* assigned.
DeserializeTrafficKeys(bytes, debug) ==
  IF bytes = <<>> THEN [status |-> "threw", result |-> <<>>, wrote |-> FALSE]
  ELSE IF bytes[1] # kLatestKeysVersion
    THEN [status |-> "check_failed", result |-> <<>>, wrote |-> FALSE]
  ELSE ReadTrafficKeys(bytes, debug)

\* SpeedGroup occupies three bits.
SpeedGroups == 0..7

\* BitWriter::Write(v, 3).
RECURSIVE ValueBits(_)
ValueBits(values) ==
  IF values = <<>> THEN <<>>
  ELSE <<values[1] % 2, (values[1] \div 2) % 2, (values[1] \div 4) % 2>>
         \o ValueBits(SubSeq(values, 2, Len(values)))

\* coding::ZLib::Deflate / Inflate.  A deflated buffer is kept as the buffer it
\* inflates to; a blob that is not a zlib stream inflates to nothing.
Deflate(buf) == [zlib |-> TRUE, bytes |-> buf]

Inflate(blob) == IF blob.zlib THEN blob.bytes ELSE <<>>

\* SerializeTrafficValues with a bit writer that is never flushed: the last,
\* partial byte does not reach the buffer.
SerializeTrafficValuesUnflushed(values) ==
  Deflate(<<kLatestValuesVersion>> \o WriteVarUint(Len(values))
            \o SpilledBytes(ValueBits(values)))

\* TrafficInfo::SerializeTrafficValues
SerializeTrafficValues(values) ==
  Deflate(<<kLatestValuesVersion>> \o WriteVarUint(Len(values))
            \o PackBits(ValueBits(values)))

\* The reader loop of DeserializeTrafficValues: BitReader::Read(3), n times.
ReadValues(bits, n) ==
  Tup([i \in 1..n |->
         bits[3 * i - 2] + 2 * bits[3 * i - 1] + 4 * bits[3 * i]])

\* TrafficInfo::DeserializeTrafficValues
DeserializeTrafficValues(blob, debug) ==
  LET Threw(w) == [status |-> "threw", result |-> <<>>, wrote |-> w]
      Values(bits, n) ==
        IF 3 * n > Len(bits)
          THEN [status |-> "threw",
                result |-> Tup([i \in 1..n |->
                                  IF 3 * i <= Len(bits)
                                    THEN ReadValues(bits, i)[i] ELSE 0]),
                wrote |-> TRUE]
        ELSE IF debug /\ BytesRead(3 * n) # Len(bits) \div 8
          THEN [status |-> "assert_failed", result |-> ReadValues(bits, n),
                wrote |-> TRUE]
        ELSE [status |-> "ok", result |-> ReadValues(bits, n), wrote |-> TRUE]
      Count(buf, v) ==
        IF v.eof THEN Threw(FALSE)
        ELSE Values(UnpackBytes(SubSeq(buf, v.pos, Len(buf))), v.val)
      Inflated(buf) ==
        IF buf = <<>> THEN Threw(FALSE)
        ELSE IF buf[1] # kLatestValuesVersion
          THEN [status |-> "check_failed", result |-> <<>>, wrote |-> FALSE]
        ELSE Count(buf, ReadVarUint(buf, 2))
  IN  Inflated(Inflate(blob))

\* ---------------------------------------------- the restriction section
restrVars == <<restrictions, firstOnlyIt, sink, serStatus, header, src,
               decoded, desStatus>>

trafficVars == <<which, trafficKeys, trafficValues, data, tampered, result,
                 wrote, status>>

TrafficIdle ==
  /\ trafficKeys = <<>>
  /\ trafficValues = <<>>
  /\ data = <<>>
  /\ tampered = "no"
  /\ result = <<>>
  /\ wrote = FALSE
  /\ status = "none"

infoVars == <<allKeys, knownColors, fullColoring, m_keys, m_coloring,
              m_availability, m_currentDataVersion, info, url, mwmVersion,
              ret, received, calls>>

\* A Coloring (map<RoadSegmentId, SpeedGroup>) with no entry.
EmptyColoring == [k \in {} |-> 0]

InfoIdle ==
  /\ allKeys = <<>>
  /\ knownColors = EmptyColoring
  /\ fullColoring = EmptyColoring
  /\ m_keys = <<>>
  /\ m_coloring = EmptyColoring
  /\ m_availability = "Unknown"
  /\ m_currentDataVersion = 0
  /\ info = FALSE
  /\ url = ""
  /\ mwmVersion = 0
  /\ ret = "none"
  /\ received = <<>>
  /\ calls = 0

\* routing.hpp has no ASSERT: the restriction codec is the same in debug and
\* release builds.
RestrictionBuilds == {b \in Builds : ~b.debug}

FeatureIds == {Zero32, One32, U32(32768, 0), kInvalidFeatureId}

LinkSeqs == UNION {[1..n -> FeatureIds] : n \in 1..MaxLinks}

RestrictionVecs ==
  UNION {[1..n -> [m_type : {"No", "Only"}, m_featureIds : LinkSeqs]] :
           n \in 0..MaxRestrictions}

\* 2^32, whose low 32 bits are 0.
TwoTo32 == Zeros(WordBits) \o <<1>>

\* Sections as a damaged or foreign file can hold them: per BitWriter frame, any
\* run of Elias-delta codewords.
CraftedWords == {NatBits(1), NatBits(2), TwoTo32}

RECURSIVE DeltaFrameBits(_)
DeltaFrameBits(ws) ==
  IF ws = <<>> THEN <<>>
  ELSE DeltaEncode(ws[1]).bits \o DeltaFrameBits(SubSeq(ws, 2, Len(ws)))

CraftedFrames ==
  {PackBits(DeltaFrameBits(ws)) :
     ws \in UNION {[1..n -> CraftedWords] : n \in 1..(MaxLinks + 1)}}

RECURSIVE Concat(_)
Concat(ss) == IF ss = <<>> THEN <<>> ELSE ss[1] \o Concat(SubSeq(ss, 2, Len(ss)))

CraftedSections ==
  {Concat(fs) : fs \in UNION {[1..n -> CraftedFrames] : n \in 0..MaxRestrictions}}

NoHeader == [m_noRestrictionCount |-> 0, m_onlyRestrictionCount |-> 0]

NotRun == [outcome |-> "none", noRet |-> "none", onlyRet |-> "none",
           noOut |-> <<>>, onlyOut |-> <<>>]

RestrIdle ==
  /\ restrictions = <<>>
  /\ firstOnlyIt = 1
  /\ sink = <<>>
  /\ serStatus = "none"
  /\ header = NoHeader
  /\ src = <<>>
  /\ decoded = <<>>
  /\ desStatus = NotRun

\* A caller about to serialize a restriction vector it built.
InitSerialize ==
  /\ TrafficIdle
  /\ InfoIdle
  /\ build \in RestrictionBuilds
  /\ which = "restrictions"
  /\ pc = "input"
  /\ restrictions \in RestrictionVecs
  /\ firstOnlyIt \in 1..(Len(restrictions) + 1)
  /\ sink = <<>>
  /\ serStatus = "none"
  /\ encoded = <<>>
  /\ header = NoHeader
  /\ src = <<>>
  /\ decoded = <<>>
  /\ desStatus = NotRun

\* A caller about to read a routing section it did not write.
InitSection ==
  /\ TrafficIdle
  /\ InfoIdle
  /\ build \in RestrictionBuilds
  /\ which = "restrictions"
  /\ pc = "foreign"
  /\ restrictions = <<>>
  /\ firstOnlyIt = 1
  /\ sink = <<>>
  /\ serStatus = "none"
  /\ encoded = <<>>
  /\ header \in [m_noRestrictionCount : 0..MaxRestrictions,
                 m_onlyRestrictionCount : 0..MaxRestrictions]
  /\ src \in CraftedSections
  /\ decoded = <<>>
  /\ desStatus = NotRun

\* RestrictionSerializer::Serialize(begin, firstOnlyIt, end, sink)
Serialize ==
  /\ pc = "input"
  /\ which = "restrictions"
  /\ LET Emit(s) ==
           /\ sink' = s.bytes
           /\ serStatus' = s.status
           /\ encoded' = s.args
     IN  Emit(SerializeRestrictions(restrictions, firstOnlyIt, build.trapv))
  /\ pc' = "serialized"
  /\ UNCHANGED <<build, restrictions, firstOnlyIt, header, src, decoded,
                 desStatus, trafficVars, infoVars>>

\* The section is stored under a header carrying the sizes of the two ranges
\* and handed back as the source.
StoreSection ==
  /\ pc = "serialized"
  /\ which = "restrictions"
  /\ serStatus = "ok"
  /\ header' = [m_noRestrictionCount |-> firstOnlyIt - 1,
                m_onlyRestrictionCount |-> Len(restrictions) - firstOnlyIt + 1]
  /\ src' = sink
  /\ pc' = "section"
  /\ UNCHANGED <<build, restrictions, firstOnlyIt, sink, serStatus, encoded,
                 decoded, desStatus, trafficVars, infoVars>>

\* RestrictionSerializer::Deserialize(header, restrictions, src)
Deserialize ==
  /\ pc \in {"section", "foreign"}
  /\ which = "restrictions"
  /\ desStatus' = DeserializeRestrictions(header, src)
  /\ decoded' = desStatus'.noOut \o desStatus'.onlyOut
  /\ pc' = IF pc = "section" THEN "done" ELSE "read"
  /\ UNCHANGED <<build, restrictions, firstOnlyIt, sink, serStatus, encoded,
                 header, src, trafficVars, infoVars>>

InitRestriction == InitSerialize \/ InitSection

NextRestriction == Serialize \/ StoreSection \/ Deserialize

SpecRestriction == InitRestriction /\ [][NextRestriction]_vars

\* ------------------------------------------------- the traffic blobs
\* traffic_info.cpp has no signed arithmetic: its codecs are the same with and
\* without trapping overflow.
TrafficBuilds == {b \in Builds : ~b.trapv}

KeyFids == {Zero32, One32, U32(32768, 0), U32(65535, 65535)}

KeyGroups == [fid : KeyFids, numSegs : 1..MaxSegs, oneWay : BOOLEAN]

\* Sequences of groups with strictly ascending fids.
GroupSeqs ==
  {gs \in UNION {[1..n -> KeyGroups] : n \in 0..MaxGroups} :
     \A i \in 1..(Len(gs) - 1) : Less32(gs[i].fid, gs[i + 1].fid)}

KeysOf(gs) ==
  ExpandKeys([i \in 1..Len(gs) |-> gs[i].fid],
             [i \in 1..Len(gs) |-> gs[i].numSegs],
             [i \in 1..Len(gs) |-> gs[i].oneWay], 1)

\* The key vectors ExtractTrafficKeys builds, and the same with the last key
\* missing.
KeyVectors ==
  {KeysOf(gs) : gs \in GroupSeqs}
    \cup {SubSeq(KeysOf(gs), 1, Len(KeysOf(gs)) - 1) : gs \in GroupSeqs \ {<<>>}}

ValueVectors == UNION {[1..n -> SpeedGroups] : n \in 0..MaxValues}

BadVersions == {1, 255}

TrailingBytes == {0, 255}

InitKeys ==
  /\ RestrIdle
  /\ InfoIdle
  /\ encoded = <<>>
  /\ build \in TrafficBuilds
  /\ pc = "input"
  /\ which = "keys"
  /\ trafficKeys \in KeyVectors
  /\ trafficValues = <<>>
  /\ data = <<>>
  /\ tampered = "no"
  /\ result = <<>>
  /\ wrote = FALSE
  /\ status = "none"

InitValues ==
  /\ RestrIdle
  /\ InfoIdle
  /\ encoded = <<>>
  /\ build \in TrafficBuilds
  /\ pc = "input"
  /\ which = "values"
  /\ trafficKeys = <<>>
  /\ trafficValues \in ValueVectors
  /\ data = <<>>
  /\ tampered = "no"
  /\ result = <<>>
  /\ wrote = FALSE
  /\ status = "none"

\* TrafficInfo::SerializeTrafficKeys(keys, result)
KeysSerialize ==
  /\ pc = "input"
  /\ which = "keys"
  /\ LET Emit(s) ==
           /\ data' = s.bytes
           /\ status' = s.status
           /\ encoded' = s.args
           /\ pc' = IF s.status = "ok" THEN "blob" ELSE "aborted"
     IN  Emit(SerializeTrafficKeys(trafficKeys, build.debug))
  /\ UNCHANGED <<build, restrVars, which, trafficKeys, trafficValues, tampered,
                 result, wrote, infoVars>>

\* TrafficInfo::SerializeTrafficValues(values, result)
ValuesSerialize ==
  /\ pc = "input"
  /\ which = "values"
  /\ data' = SerializeTrafficValues(trafficValues)
  /\ status' = "ok"
  /\ pc' = "blob"
  /\ UNCHANGED <<build, restrVars, encoded, which, trafficKeys, trafficValues,
                 tampered, result, wrote, infoVars>>

\* The blob reaches the reader with another version byte: written by another
\* release of the format, or damaged.
TamperVersion ==
  /\ pc = "blob"
  /\ tampered = "no"
  /\ \E v \in BadVersions :
       data' = IF which = "keys"
                 THEN <<v>> \o SubSeq(data, 2, Len(data))
                 ELSE Deflate(<<v>> \o SubSeq(Inflate(data), 2,
                                              Len(Inflate(data))))
  /\ tampered' = "version"
  /\ UNCHANGED <<build, pc, restrVars, encoded, which, trafficKeys,
                 trafficValues, result, wrote, status, infoVars>>

\* The blob reaches the reader with a byte after its payload.
AppendTrailing ==
  /\ pc = "blob"
  /\ tampered = "no"
  /\ \E b \in TrailingBytes :
       data' = IF which = "keys" THEN data \o <<b>>
               ELSE Deflate(Inflate(data) \o <<b>>)
  /\ tampered' = "trailing"
  /\ UNCHANGED <<build, pc, restrVars, encoded, which, trafficKeys,
                 trafficValues, result, wrote, status, infoVars>>

\* TrafficInfo::DeserializeTrafficKeys(data, result)
KeysDeserialize ==
  /\ pc = "blob"
  /\ which = "keys"
  /\ LET Emit(d) ==
           /\ result' = d.result
           /\ wrote' = d.wrote
           /\ status' = d.status
     IN  Emit(DeserializeTrafficKeys(data, build.debug))
  /\ pc' = "done"
  /\ UNCHANGED <<build, restrVars, encoded, which, trafficKeys, trafficValues,
                 data, tampered, infoVars>>

\* TrafficInfo::DeserializeTrafficValues(data, result)
ValuesDeserialize ==
  /\ pc = "blob"
  /\ which = "values"
  /\ LET Emit(d) ==
           /\ result' = d.result
           /\ wrote' = d.wrote
           /\ status' = d.status
     IN  Emit(DeserializeTrafficValues(data, build.debug))
  /\ pc' = "done"
  /\ UNCHANGED <<build, restrVars, encoded, which, trafficKeys, trafficValues,
                 data, tampered, infoVars>>

InitTraffic == InitKeys \/ InitValues

NextTraffic ==
  \/ KeysSerialize
  \/ ValuesSerialize
  \/ TamperVersion
  \/ AppendTrailing
  \/ KeysDeserialize
  \/ ValuesDeserialize

SpecTraffic == InitTraffic /\ [][NextTraffic]_vars

\* ------------------------------------- claims on the restriction section
\* The input contract of Serialize: sorted, the first range all No, the second
\* all Only, every restriction valid.
ValidRestrictionInput ==
  /\ IsSorted(restrictions)
  /\ \A i \in 1..Len(restrictions) :
       /\ IsValid(restrictions[i])
       /\ restrictions[i].m_type = IF i < firstOnlyIt THEN "No" ELSE "Only"

\* C1: for every valid restriction vector, deserializing the bytes Serialize
\* produced, under a header carrying the sizes of the two ranges, yields the
\* vector itself.
RestrictionRoundTrip ==
  (pc = "done" /\ ValidRestrictionInput)
    => (desStatus.outcome = "returned" /\ decoded = restrictions)

\* C4: when a decoded biased link count or biased delta is 0 in either group,
\* Deserialize reports an error to its caller and decodes nothing further: a
\* corruption found in the No group leaves the Only group undecoded.
CorruptionAbortsAndReports ==
  (pc \in {"read", "done"}
     /\ (desStatus.noRet = "false" \/ desStatus.onlyRet = "false"))
    => /\ desStatus.outcome # "returned"
       /\ (desStatus.noRet = "false"
             => desStatus.onlyRet = "none" /\ desStatus.onlyOut = <<>>)

\* The ways an input of Serialize can break its contract, as C5 lists them.
InputViolation ==
  \/ ~IsSorted(SubSeq(restrictions, 1, firstOnlyIt - 1))
  \/ ~IsSorted(SubSeq(restrictions, firstOnlyIt, Len(restrictions)))
  \/ \E i \in 1..Len(restrictions) : Len(restrictions[i].m_featureIds) < 2
  \/ \E i \in 1..Len(restrictions) :
       restrictions[i].m_type # (IF i < firstOnlyIt THEN "No" ELSE "Only")

\* C5: called with an input that breaks its contract, Serialize reports a
\* failure and has written no byte to the sink.
RefusesInvalidInput ==
  (pc = "serialized" /\ InputViolation) => (serStatus # "ok" /\ sink = <<>>)

\* ---------------------------------------- claims on the traffic blobs
\* RoadSegmentId::operator<: by fid, then idx, then dir.
KeyLess(a, b) ==
  \/ Less32(a.m_fid, b.m_fid)
  \/ a.m_fid = b.m_fid /\ a.m_idx < b.m_idx
  \/ a.m_fid = b.m_fid /\ a.m_idx = b.m_idx /\ a.m_dir < b.m_dir

\* The input contract of SerializeTrafficKeys: sorted by (fid, idx, dir), and
\* each fid group either n forward segments with idx 0..n-1 or the full pattern
\* (0,0),(0,1),...,(n-1,0),(n-1,1).
ProperKeys(keys) ==
  /\ \A i \in 1..(Len(keys) - 1) : KeyLess(keys[i], keys[i + 1])
  /\ \A i \in 1..Len(keys) :
       LET group == {j \in 1..Len(keys) : keys[j].m_fid = keys[i].m_fid}
           pairs == {<<keys[j].m_idx, keys[j].m_dir>> : j \in group}
           n == Cardinality(group)
       IN  \/ pairs = (0..(n - 1)) \X {0}
           \/ n % 2 = 0 /\ pairs = (0..((n \div 2) - 1)) \X {0, 1}

\* C2: for every properly grouped key vector, whatever its fids,
\* DeserializeTrafficKeys(SerializeTrafficKeys(K)) equals K.
KeysRoundTrip ==
  (which = "keys" /\ tampered = "no" /\ ProperKeys(trafficKeys)
     /\ pc \in {"aborted", "done"})
    => (pc = "done" /\ status = "ok" /\ result = trafficKeys)

\* C3: for every vector of speed groups,
\* DeserializeTrafficValues(SerializeTrafficValues(V)) equals V.
ValuesRoundTrip ==
  (which = "values" /\ tampered = "no" /\ pc = "done")
    => (status = "ok" /\ wrote /\ result = trafficValues)

\* C3 witness: three values, nine bits, came back.
ValuesRoundTripReached ==
  /\ which = "values"
  /\ tampered = "no"
  /\ pc = "done"
  /\ Len(trafficValues) = 3
  /\ result = trafficValues

TrailingDataRejected ==
  (tampered = "trailing" /\ pc = "done") => status # "ok"

\* --------------------------------------------- the two serializers together
InitEncoders == InitSerialize \/ InitKeys

NextEncoders == Serialize \/ KeysSerialize

SpecEncoders == InitEncoders /\ [][NextEncoders]_vars

\* The serializer's input keeps its contract.
ValidEncoderInput ==
  IF which = "keys" THEN ProperKeys(trafficKeys) ELSE ValidRestrictionInput

\* C9: for every valid input, every value the restriction serializer hands to
\* the Elias-delta encoder and every value the traffic-keys serializer hands to
\* the Elias-gamma encoder is at least 1.
EncodersNeverReceiveZero ==
  (pc # "input" /\ ValidEncoderInput)
    => \A i \in 1..Len(encoded) : encoded[i] # <<>>

\* ------------------------------------------------------ CombineColorings
\* SpeedGroup::Unknown
Unknown == 7

\* The loop of CombineColorings from keys[i] on.  numUnexpectedKeys is a size_t:
\* below zero it wraps to 2^64 - k, which differs from 0 as the negative
\* number kept here does.
RECURSIVE CombineLoop(_, _, _, _, _)
CombineLoop(keys, known, i, res, numUnexpectedKeys) ==
  LET Put(v) == [k \in DOMAIN res \cup {keys[i]} |->
                   IF k = keys[i] THEN v ELSE res[k]]
  IN  IF i > Len(keys)
        THEN [result |-> res, numUnexpectedKeys |-> numUnexpectedKeys]
      ELSE IF keys[i] \notin DOMAIN known
        THEN CombineLoop(keys, known, i + 1, Put(Unknown), numUnexpectedKeys)
      ELSE CombineLoop(keys, known, i + 1, Put(known[keys[i]]),
                       numUnexpectedKeys - 1)

\* CombineColorings(keys, knownColors, result): status "assert_failed" when
\* ASSERT_EQUAL(numUnexpectedKeys, 0) stops a debug build.
CombineColorings(keys, known, debug) ==
  LET End(c) ==
        [status |-> IF debug /\ c.numUnexpectedKeys # 0
                      THEN "assert_failed" ELSE "ok",
         result |-> c.result]
  IN  End(CombineLoop(keys, known, 1, EmptyColoring,
                      Cardinality(DOMAIN known)))

Segments ==
  {RoadSegmentId(Zero32, 0, 0), RoadSegmentId(Zero32, 0, 1),
   RoadSegmentId(One32, 0, 0)}

KnownSpeeds == {1, 2}

Colorings == UNION {[ks -> KnownSpeeds] : ks \in SUBSET Segments}

InitCombine ==
  /\ RestrIdle
  /\ TrafficIdle
  /\ encoded = <<>>
  /\ build \in TrafficBuilds
  /\ pc = "input"
  /\ which = "combine"
  /\ allKeys \in UNION {[1..n -> Segments] : n \in 0..MaxAllKeys}
  /\ knownColors \in Colorings
  /\ fullColoring = EmptyColoring
  /\ m_keys = <<>>
  /\ m_coloring = EmptyColoring
  /\ m_availability = "Unknown"
  /\ m_currentDataVersion = 0
  /\ info = FALSE
  /\ url = ""
  /\ mwmVersion = 0
  /\ ret = "none"
  /\ received = <<>>
  /\ calls = 0

\* A call of CombineColorings(allKeys, knownColors, fullColoring).
Combine ==
  /\ pc = "input"
  /\ which = "combine"
  /\ LET Emit(c) ==
           /\ fullColoring' = c.result
           /\ status' = c.status
     IN  Emit(CombineColorings(allKeys, knownColors, build.debug))
  /\ pc' = "combined"
  /\ UNCHANGED <<build, restrVars, encoded, which, trafficKeys, trafficValues,
                 data, tampered, result, wrote, allKeys, knownColors, m_keys,
                 m_coloring, m_availability, m_currentDataVersion, info, url,
                 mwmVersion, ret, received, calls>>

SpecCombine == InitCombine /\ [][Combine]_vars

\* C6: CombineColorings signals an error exactly when some key of the known
\* map does not appear in the key list, which may repeat keys.  Stated for the
\* builds that keep ASSERT.
CombineErrorCondition ==
  (pc = "combined" /\ build.debug)
    => (status # "ok"
          <=> \E k \in DOMAIN knownColors :
                \A i \in 1..Len(allKeys) : allKeys[i] # k)

\* ---------------------------------------------------------- TrafficInfo
\* ReceiveTrafficValues as it would be if a failed request other than a 404
\* left m_availability as it was.
ReceiveTrafficValuesKeepingAvailability(resp, availability, currentDataVersion, version, debug) ==
  LET Failed(a) == [ret |-> "false", availability |-> a, values |-> <<>>]
      Decoded(d) ==
        IF d.status = "threw" THEN Failed("NoData")
        ELSE IF d.status # "ok"
          THEN [ret |-> "aborted", availability |-> availability,
                values |-> <<>>]
        ELSE [ret |-> "true", availability |-> "IsAvailable",
              values |-> d.result]
  IN  IF resp.kind \in {"noinfo", "nourl"} THEN Failed(availability)
      ELSE IF resp.kind = "failed"
        THEN IF resp.errorCode = 404
               THEN IF resp.version > version
                         /\ resp.version <= currentDataVersion
                      THEN Failed("ExpiredData")
                    ELSE IF resp.version > currentDataVersion
                      THEN Failed("ExpiredApp")
                    ELSE Failed("NoData")
             ELSE Failed(availability)
      ELSE Decoded(DeserializeTrafficValues(resp.contents, debug))

\* TrafficInfo::ReceiveTrafficValues against one answer of the network:
\* resp.kind is "noinfo" (m_mwmId.GetInfo() is null), "nourl" (MakeRemoteURL
\* gave nothing), "failed" (ReadRemoteFile returned false, with errorCode and the
\* version the body carries) or "ok" (contents arrived).
ReceiveTrafficValues(resp, availability, currentDataVersion, version, debug) ==
  LET Failed(a) == [ret |-> "false", availability |-> a, values |-> <<>>]
      Decoded(d) ==
        IF d.status = "threw" THEN Failed("NoData")
        ELSE IF d.status # "ok"
          THEN [ret |-> "aborted", availability |-> availability,
                values |-> <<>>]
        ELSE [ret |-> "true", availability |-> "IsAvailable",
              values |-> d.result]
  IN  IF resp.kind \in {"noinfo", "nourl"} THEN Failed(availability)
      ELSE IF resp.kind = "failed"
        THEN IF resp.errorCode = 404
               THEN IF resp.version > version
                         /\ resp.version <= currentDataVersion
                      THEN Failed("ExpiredData")
                    ELSE IF resp.version > currentDataVersion
                      THEN Failed("ExpiredApp")
                    ELSE Failed("NoData")
             ELSE Failed("Unknown")
      ELSE Decoded(DeserializeTrafficValues(resp.contents, debug))

\* The emplace loop of ReceiveTrafficData from index i on: map::emplace leaves
\* an entry that is already there as it is.
RECURSIVE Emplace(_, _, _, _)
Emplace(coloring, keys, values, i) ==
  IF i > Len(keys) THEN coloring
  ELSE IF keys[i] \in DOMAIN coloring
    THEN Emplace(coloring, keys, values, i + 1)
  ELSE Emplace([k \in DOMAIN coloring \cup {keys[i]} |->
                  IF k = keys[i] THEN values[i] ELSE coloring[k]],
               keys, values, i + 1)

\* TrafficInfo::ReceiveTrafficData
ReceiveTrafficData(resp, keys, coloring, availability, current, version, debug) ==
  LET Values(v) ==
        IF v.ret # "true"
          THEN [ret |-> v.ret, coloring |-> coloring,
                availability |-> v.availability, values |-> v.values]
        ELSE IF Len(keys) # Len(v.values)
          THEN [ret |-> "false", coloring |-> EmptyColoring,
                availability |-> "NoData", values |-> v.values]
        ELSE [ret |-> "true", coloring |-> Emplace(coloring, keys, v.values, 1),
              availability |-> v.availability, values |-> v.values]
  IN  Values(ReceiveTrafficValues(resp, availability, current, version, debug))

\* TrafficInfo::GetSpeedGroup
GetSpeedGroup(coloring, id) ==
  IF id \notin DOMAIN coloring THEN Unknown ELSE coloring[id]

InfoKeyVectors ==
  {ks \in UNION {[1..n -> Segments] : n \in 0..MaxValues} : ProperKeys(ks)}

InfoValueVectors == UNION {[1..n -> KnownSpeeds] : n \in 0..MaxValues}

DataVersions == 1..2

ServerVersions == 0..3

\* What the server can send as contents: well-formed blobs, one cut short, one
\* of a foreign version, one with a byte after its payload, one that is not a
\* zlib stream.
Contents ==
  {SerializeTrafficValues(v) : v \in InfoValueVectors}
    \cup {Deflate(<<kLatestValuesVersion, 1>>),
          Deflate(<<kLatestValuesVersion + 1, 0>>),
          Deflate(<<kLatestValuesVersion, 0, 0>>),
          [zlib |-> FALSE, bytes |-> <<>>]}

Responses ==
  [kind : {"noinfo", "nourl"}, errorCode : {0}, version : {0},
   contents : {Deflate(<<>>)}]
    \cup [kind : {"failed"}, errorCode : {404, 500}, version : ServerVersions,
          contents : {Deflate(<<>>)}]
    \cup [kind : {"ok"}, errorCode : {200}, version : {0}, contents : Contents]

\* MakeRemoteURL: empty when TRAFFIC_DATA_BASE_URL is, a remote address
\* otherwise.
RemoteURLs == {"", "remote"}

\* The answers one call of ReceiveTrafficValues can meet on a TrafficInfo:
\* m_mwmId and TRAFFIC_DATA_BASE_URL do not change between calls, what the
\* server sends does.
Answers(hasInfo, remoteUrl) ==
  IF ~hasInfo THEN {r \in Responses : r.kind = "noinfo"}
  ELSE IF remoteUrl = "" THEN {r \in Responses : r.kind = "nourl"}
  ELSE {r \in Responses : r.kind \in {"failed", "ok"}}

InitInfo ==
  /\ RestrIdle
  /\ TrafficIdle
  /\ encoded = <<>>
  /\ build \in TrafficBuilds
  /\ pc = "idle"
  /\ which = "info"
  /\ allKeys = <<>>
  /\ knownColors = EmptyColoring
  /\ fullColoring = EmptyColoring
  /\ m_keys \in InfoKeyVectors
  /\ m_coloring = EmptyColoring
  /\ m_availability = "Unknown"
  /\ m_currentDataVersion \in DataVersions
  /\ info \in BOOLEAN
  /\ url \in RemoteURLs
  /\ mwmVersion \in DataVersions
  /\ ret = "none"
  /\ received = <<>>
  /\ calls = 0

\* One call of ReceiveTrafficData on the TrafficInfo.
Receive ==
  /\ pc = "idle"
  /\ which = "info"
  /\ calls < MaxReceives
  /\ \E resp \in Answers(info, url) :
       LET Emit(r) ==
             /\ ret' = r.ret
             /\ m_coloring' = r.coloring
             /\ m_availability' = r.availability
             /\ received' = r.values
             /\ pc' = IF r.ret = "aborted" THEN "aborted" ELSE "idle"
       IN  Emit(ReceiveTrafficData(resp, m_keys, m_coloring, m_availability,
                                   m_currentDataVersion, mwmVersion,
                                   build.debug))
  /\ calls' = calls + 1
  /\ UNCHANGED <<build, restrVars, encoded, trafficVars, allKeys, knownColors,
                 fullColoring, m_keys, m_currentDataVersion, info, url,
                 mwmVersion>>

SpecInfo == InitInfo /\ [][Receive]_vars

\* C10: whenever the most recent ReceiveTrafficData returned true, the speed
\* group of every key is the value that call received for it.
ColoringReflectsLatest ==
  (which = "info" /\ ret = "true")
    => \A i \in 1..Len(m_keys) :
         GetSpeedGroup(m_coloring, m_keys[i]) = received[i]

\* C11: after any sequence of ReceiveTrafficData calls, the availability is
\* IsAvailable when the most recent call returned true, and is not IsAvailable
\* when the most recent call returned false.
AvailabilityAgreesWithLastReceive ==
  which = "info"
    => /\ ret = "true" => m_availability = "IsAvailable"
       /\ ret = "false" => m_availability # "IsAvailable"

\* C11 (witness): a call returned false on a TrafficInfo whose coloring an
\* earlier call had filled, and the availability is no longer IsAvailable.
AvailabilityAgreesReached ==
  /\ which = "info"
  /\ ret = "false"
  /\ DOMAIN m_coloring # {}
  /\ m_availability \in {"NoData", "Unknown", "ExpiredData", "ExpiredApp"}

====
